---- MODULE Spec2Model ----
(***************************************************************************)
(* Olimpo Gym backend: memberships, attendance, notifications, templates   *)
(* and the role guard, modelled as state machines over the hosted store's  *)
(* tables.  Dates are day numbers counted from 2027-01-01 (day 0);         *)
(* attendance timestamps are clock ticks, TicksPerDay of them in one day.  *)
(***************************************************************************)
EXTENDS Integers, Sequences, FiniteSets, TLC

VARIABLES
    memberships,    \* table memberships: sequence of rows, a row's id is its index
    today,          \* the server clock's calendar day, as the memberships service reads it
    lastM,          \* the last membership operation: what it was given and what it answered
    attendances,    \* table attendances: sequence of rows, a row's id is its index
    now,            \* the server clock in ticks, as the attendance service reads it
    lastA,          \* the last attendance operation
    notifications,  \* table notifications: sequence of rows
    lastN,          \* the last notification send
    templates,      \* table notification_templates: set of rows
    nextTemplateId, \* the id the store gives the next template row
    lastT,          \* the last template operation
    users,          \* table users: set of rows
    lastReq,        \* the last HTTP request through the guards
    config,         \* provider credentials present in the environment
    posts,          \* table blog_posts: sequence of rows, a row's id is its index
    products,       \* table products: sequence of rows, a row's id is its index
    dateNow,        \* Date.now() as the blog and products services read it
    lastC,          \* the last blog or products operation
    lastStats,      \* the last dashboard statistic: its inputs and its answer
    lastBulk,       \* the last bulk email: its inputs and its answer
    flights         \* requests being served concurrently: each one's position and locals

vars == <<memberships, today, lastM, attendances, now, lastA, notifications,
          lastN, templates, nextTemplateId, lastT, users, lastReq, config,
          posts, products, dateNow, lastC, lastStats, lastBulk, flights>>

membershipVars == <<memberships, today, lastM>>
attendanceVars == <<attendances, now, lastA>>
notificationVars == <<notifications, lastN>>
templateVars == <<templates, nextTemplateId, lastT>>
authVars == <<users, lastReq>>
contentVars == <<posts, products, dateNow, lastC>>
dashboardVars == <<lastStats>>
bulkVars == <<lastBulk>>
flightVars == <<flights>>

(***************************************************************************)
(* Bounds of the model.                                                    *)
(***************************************************************************)
MaxMemberships == 2
MaxRenewals == 2
MaxAttendances == 3
MaxTick == 2
TicksPerDay == 2
MaxNotifications == 2
MaxTemplates == 7
MaxUsers == 4
MaxPosts == 3
MaxMillis == 4
MaxNewUsers == 3

None == <<>>
Some(x) == <<x>>

(***************************************************************************)
(* The calendar behind Date.getDate / Date.setDate.                        *)
(***************************************************************************)
EpochYear == 2027

IsLeap(y) == (y % 4 = 0 /\ y % 100 # 0) \/ y % 400 = 0

DaysInYear(y) == IF IsLeap(y) THEN 366 ELSE 365

\* m is a JavaScript month, 0..11
DaysInMonth(y, m) ==
    CASE m = 1 -> IF IsLeap(y) THEN 29 ELSE 28
      [] m \in {3, 5, 8, 10} -> 30
      [] OTHER -> 31

RECURSIVE YearFrom(_, _)
YearFrom(d, y) ==
    IF d < DaysInYear(y) THEN [year |-> y, rest |-> d]
    ELSE YearFrom(d - DaysInYear(y), y + 1)

RECURSIVE MonthFrom(_, _, _)
MonthFrom(d, y, m) ==
    IF d < DaysInMonth(y, m) THEN [month |-> m, date |-> d + 1]
    ELSE MonthFrom(d - DaysInMonth(y, m), y, m + 1)

\* the local calendar fields of a day number
Civil(d) ==
    LET yr == YearFrom(d, EpochYear)
        mo == MonthFrom(yr.rest, yr.year, 0)
    IN  [year |-> yr.year, month |-> mo.month, date |-> mo.date]

RECURSIVE DaysBeforeYear(_)
DaysBeforeYear(y) ==
    IF y = EpochYear THEN 0 ELSE DaysBeforeYear(y - 1) + DaysInYear(y - 1)

RECURSIVE DaysBeforeMonth(_, _)
DaysBeforeMonth(y, m) ==
    IF m = 0 THEN 0 ELSE DaysBeforeMonth(y, m - 1) + DaysInMonth(y, m - 1)

getDate(d) == Civil(d).date

\* Date.prototype.setDate: MakeDay(year, month, n), n may overflow the month
setDate(d, n) ==
    LET c == Civil(d)
    IN  DaysBeforeYear(c.year) + DaysBeforeMonth(c.year, c.month) + n - 1

(***************************************************************************)
(* Memberships.                                                            *)
(***************************************************************************)
MembershipType == {"monthly", "kickboxing", "quarterly", "biannual", "annual"}

MembershipStatus == {"active", "expired", "pending"}

StartDates == {45}

ClockDays == {0, 45, 46, 76}

\* end_date computed by MembershipsService.create: endDate starts as a copy of startDate
CreateEndDate(type, startDate) ==
    IF type = "monthly"
    THEN setDate(startDate, getDate(startDate) + 30)
    ELSE IF type = "kickboxing"
         THEN setDate(startDate, getDate(startDate) + 30)
         ELSE startDate

\* a renewal counted from the current date instead of the stored end_date
RenewEndDateFromToday(type, currentEndDate) ==
    IF type \in {"monthly", "kickboxing"} THEN setDate(today, getDate(today) + 30)
    ELSE IF type = "quarterly" THEN setDate(today, getDate(today) + 90)
    ELSE IF type = "biannual" THEN setDate(today, getDate(today) + 180)
    ELSE IF type = "annual" THEN setDate(today, getDate(today) + 365)
    ELSE currentEndDate

\* end_date computed by MembershipsService.renewMembership
RenewEndDate(type, currentEndDate) ==
    IF type \in {"monthly", "kickboxing"}
    THEN setDate(currentEndDate, getDate(currentEndDate) + 30)
    ELSE IF type = "quarterly"
         THEN setDate(currentEndDate, getDate(currentEndDate) + 90)
         ELSE IF type = "biannual"
              THEN setDate(currentEndDate, getDate(currentEndDate) + 180)
              ELSE IF type = "annual"
                   THEN setDate(currentEndDate, getDate(currentEndDate) + 365)
                   ELSE currentEndDate

(***************************************************************************)
(* Seeded tables.                                                          *)
(***************************************************************************)
Role == {"user", "admin"}

\* a phone is a sequence of characters; None when the user has no phone
SeedUsers ==
    { [id |-> 1, email |-> "ana@olimpo", phone |-> Some(<<"0", "1", "1", "5">>),
       is_admin |-> FALSE, role |-> "user"],
      [id |-> 2, email |-> "beto@olimpo", phone |-> None,
       is_admin |-> FALSE, role |-> "user"],
      [id |-> 3, email |-> "admin@olimpo", phone |-> None,
       is_admin |-> TRUE, role |-> "admin"] }

NotificationType == {"EMAIL", "WHATSAPP", "SMS", "PUSH"}

NotificationStatus == {"PENDING", "SENT", "FAILED", "CANCELLED"}

\* the rows inserted by notification_tables.sql
SeedTemplates ==
    { [id |-> 1, name |-> "Expiración de Membresía", type |-> "EMAIL",
       is_default |-> TRUE, whatsapp_template_name |-> "expiracion_membresia"],
      [id |-> 2, name |-> "Expiración de Membresía WhatsApp", type |-> "WHATSAPP",
       is_default |-> TRUE, whatsapp_template_name |-> "expiracion_membresia"],
      [id |-> 3, name |-> "Renovación de Membresía", type |-> "EMAIL",
       is_default |-> TRUE, whatsapp_template_name |-> "renovacion_membresia"],
      [id |-> 4, name |-> "Renovación de Membresía WhatsApp", type |-> "WHATSAPP",
       is_default |-> TRUE, whatsapp_template_name |-> "renovacion_membresia"],
      [id |-> 5, name |-> "Expiración Próxima de Membresía", type |-> "EMAIL",
       is_default |-> TRUE, whatsapp_template_name |-> "expiracion_proxima"],
      [id |-> 6, name |-> "Expiración Próxima de Membresía WhatsApp", type |-> "WHATSAPP",
       is_default |-> TRUE, whatsapp_template_name |-> "expiracion_proxima"] }

Init ==
    /\ memberships = <<>>
    /\ today = 0
    /\ lastM = [op |-> "none", id |-> 0, status |-> 0, before |-> <<>>,
                streak |-> 0, streakStart |-> 0, today |-> 0,
                selectOk |-> TRUE, rejected |-> {}, notifyFailed |-> FALSE,
                autoRenew |-> {}]
    /\ attendances = <<>>
    /\ now = 0
    /\ lastA = [op |-> "none", id |-> 0, status |-> 0, before |-> <<>>,
                user_id |-> 0, now |-> 0, storeOk |-> TRUE, raised |-> 0,
                inserts |-> 0, firstError |-> "none"]
    /\ notifications = <<>>
    /\ lastN = [op |-> "none", id |-> 0, ok |-> FALSE, outcome |-> "none",
                created |-> FALSE, updateOk |-> FALSE, to |-> None]
    /\ templates = SeedTemplates
    /\ nextTemplateId = Cardinality(SeedTemplates) + 1
    /\ lastT = [op |-> "none", id |-> 0, ok |-> FALSE]
    /\ users = SeedUsers
    /\ lastReq = [route |-> "none", principal |-> None, status |-> 0,
                  served |-> FALSE, before |-> {}, body |-> None]
    /\ config \in [sendgrid : BOOLEAN, whatsapp : BOOLEAN]
    /\ posts = <<>>
    /\ products = <<>>
    /\ dateNow = 0
    /\ lastC = [op |-> "none", id |-> 0, status |-> 0, text |-> "", before |-> <<>>]
    /\ lastStats = [op |-> "none", status |-> 0, created |-> <<>>, count |-> 0,
                    percentChange |-> [num |-> 0, den |-> 1]]
    /\ lastBulk = [op |-> "none", emails |-> 0, batches |-> <<>>, delivered |-> 0,
                   success |-> FALSE, sent |-> 0, failed |-> 0]
    /\ flights = <<>>

\* the same deployment with both providers' credentials configured
InitConfigured == Init /\ config = [sendgrid |-> TRUE, whatsapp |-> TRUE]

(***************************************************************************)
(* Notifications: the delivery log and the two send operations.            *)
(***************************************************************************)
\* what the provider does with one request
Outcomes == {"accepted", "rejected", "threw"}

\* a status update that writes nothing
updateNotificationStatusDropped(notifs, notificationId, status, updateOk) == notifs

\* NotificationsService.updateNotificationStatus: a store error is logged and dropped
updateNotificationStatus(notifs, id, status, storeOk) ==
    IF storeOk THEN [notifs EXCEPT ![id].status = status] ELSE notifs

\* NotificationsService.createNotificationRecord, the row it inserts
NotificationRecord(type, recipient, userId, membershipId, templateId) ==
    [type |-> type, recipient |-> recipient, status |-> "PENDING",
     user_id |-> userId, membership_id |-> membershipId, template_id |-> templateId]

\* The notificationId the catch block of sendEmail reads off the caught error:
\* neither the store's nor the provider's errors carry one.
ErrorNotificationId(outcome) == None

\* NotificationsService.sendEmail; insertOk / updateOk: the store accepts the
\* insert of the record / the update of its status
sendEmail(notifs, to, userId, membershipId, templateId, outcome, insertOk, updateOk) ==
    IF ~insertOk
    THEN [notifs |-> notifs, ok |-> FALSE, id |-> 0, contacted |-> FALSE]
    ELSE LET notificationId == Len(notifs) + 1
             created == Append(notifs,
                 NotificationRecord("EMAIL", Some(to), userId, membershipId, templateId))
         IN  IF ~config.sendgrid
             THEN [notifs |-> updateNotificationStatus(created, notificationId,
                                                       "FAILED", updateOk),
                   ok |-> FALSE, id |-> notificationId, contacted |-> FALSE]
             ELSE IF outcome = "accepted"
                  THEN [notifs |-> updateNotificationStatus(created, notificationId,
                                                            "SENT", updateOk),
                        ok |-> TRUE, id |-> notificationId, contacted |-> TRUE]
                  ELSE \* sgMail.send rejected: the catch block
                       IF ErrorNotificationId(outcome) # None
                       THEN [notifs |-> updateNotificationStatus(created,
                                 ErrorNotificationId(outcome)[1], "FAILED", updateOk),
                             ok |-> FALSE, id |-> notificationId, contacted |-> TRUE]
                       ELSE [notifs |-> created, ok |-> FALSE,
                             id |-> notificationId, contacted |-> TRUE]

startsWith(s, prefix) ==
    /\ Len(s) >= Len(prefix)
    /\ SubSeq(s, 1, Len(prefix)) = prefix

\* String.prototype.substring(n): the characters from index n on
substring(s, n) == SubSeq(s, n + 1, Len(s))

\* the number sendWhatsApp stores and passes to the provider
formattedPhone(phone) ==
    IF ~startsWith(phone, <<"+">>)
    THEN IF startsWith(phone, <<"0">>)
         THEN <<"+", "5", "4">> \o substring(phone, 1)
         ELSE IF startsWith(phone, <<"1", "5">>)
              THEN <<"+", "5", "4", "9">> \o substring(phone, 2)
              ELSE IF ~startsWith(phone, <<"5", "4">>)
                   THEN <<"+", "5", "4">> \o phone
                   ELSE <<"+">> \o phone
    ELSE substring(phone, 1)

\* NotificationsService.sendWhatsApp
sendWhatsApp(notifs, phone, userId, membershipId, templateId, outcome, insertOk, updateOk) ==
    IF ~insertOk
    THEN [notifs |-> notifs, ok |-> FALSE, id |-> 0, contacted |-> FALSE]
    ELSE LET notificationId == Len(notifs) + 1
             created == Append(notifs,
                 NotificationRecord("WHATSAPP", Some(formattedPhone(phone)),
                                    userId, membershipId, templateId))
         IN  IF ~config.whatsapp
             THEN [notifs |-> updateNotificationStatus(created, notificationId,
                                                       "FAILED", updateOk),
                   ok |-> FALSE, id |-> notificationId, contacted |-> FALSE]
             ELSE IF outcome = "accepted"
                  THEN [notifs |-> updateNotificationStatus(created, notificationId,
                                                            "SENT", updateOk),
                        ok |-> TRUE, id |-> notificationId, contacted |-> TRUE]
                  ELSE \* a non-2xx answer or a thrown request: both end FAILED
                       [notifs |-> updateNotificationStatus(created, notificationId,
                                                            "FAILED", updateOk),
                        ok |-> FALSE, id |-> notificationId, contacted |-> TRUE]

Emails == {"ana@olimpo", "nadie@olimpo"}

Phones == { <<"0", "1", "1", "5">>, <<"1", "5", "4", "4">>, <<"5", "4", "9", "1">>,
            <<"+", "5", "4", "9">>, <<"3", "5", "1">> }

SendEmail ==
    \E to \in Emails, outcome \in Outcomes, insertOk \in BOOLEAN, updateOk \in BOOLEAN :
        /\ Len(notifications) < MaxNotifications
        /\ LET r == sendEmail(notifications, to, None, None, None,
                              outcome, insertOk, updateOk)
           IN  /\ notifications' = r.notifs
               /\ lastN' = [op |-> "sendEmail", id |-> r.id, ok |-> r.ok,
                            outcome |-> outcome, created |-> insertOk,
                            updateOk |-> updateOk, to |-> Some(to)]
        /\ UNCHANGED <<membershipVars, attendanceVars, templateVars, authVars, config, contentVars, dashboardVars, bulkVars, flightVars>>

SendWhatsApp ==
    \E phone \in Phones, outcome \in Outcomes, insertOk \in BOOLEAN, updateOk \in BOOLEAN :
        /\ Len(notifications) < MaxNotifications
        /\ LET r == sendWhatsApp(notifications, phone, None, None, None,
                                 outcome, insertOk, updateOk)
           IN  /\ notifications' = r.notifs
               /\ lastN' = [op |-> "sendWhatsApp", id |-> r.id, ok |-> r.ok,
                            outcome |-> outcome, created |-> insertOk,
                            updateOk |-> updateOk, to |-> Some(phone)]
        /\ UNCHANGED <<membershipVars, attendanceVars, templateVars, authVars, config, contentVars, dashboardVars, bulkVars, flightVars>>

NextNotifications == SendEmail \/ SendWhatsApp

SpecNotifications == Init /\ [][NextNotifications]_vars

(***************************************************************************)
(* Memberships service.                                                    *)
(***************************************************************************)
\* names a template may carry that contain "expiracion" as ILIKE compares it
\* (the seeded names spell it with an accented vowel)
NamesLikeExpiracion == {"Aviso de expiracion"}

TemplateNames == {"Aviso de expiracion", "Promo"}

\* .eq('type', type).eq('is_default', true).ilike('name', '%expiracion%').limit(1)
DefaultExpirationTemplate(type) ==
    LET found == {t \in templates : /\ t.type = type
                                    /\ t.is_default
                                    /\ t.name \in NamesLikeExpiracion}
    IN  IF found = {} THEN None
        ELSE Some((CHOOSE t \in found : \A o \in found : t.id <= o.id).id)

MemberIds == {1, 2}

MembershipRow(user_id, type, start_date, days_per_week) ==
    [user_id |-> user_id, type |-> type, status |-> "active",
     start_date |-> start_date, end_date |-> CreateEndDate(type, start_date),
     days_per_week |-> days_per_week]

MResult(op, id, status) ==
    [op |-> op, id |-> id, status |-> status, before |-> memberships,
     streak |-> 0, streakStart |-> 0, today |-> today,
     selectOk |-> TRUE, rejected |-> {}, notifyFailed |-> FALSE,
     autoRenew |-> {}]

\* MembershipsService.create; days_per_week 0 stands for an absent field
MembershipsCreate ==
    \E user_id \in MemberIds, type \in MembershipType, start_date \in StartDates,
       storeOk \in BOOLEAN :
      \E days_per_week \in IF type = "kickboxing" THEN {0, 3} ELSE {0} :
        /\ Len(memberships) < MaxMemberships
        /\ IF type = "kickboxing" /\ days_per_week = 0
           THEN /\ memberships' = memberships
                /\ lastM' = MResult("create", 0, 400)
           ELSE IF ~storeOk
                THEN /\ memberships' = memberships
                     /\ lastM' = MResult("create", 0, 500)
                ELSE /\ memberships' = Append(memberships,
                            MembershipRow(user_id, type, start_date, days_per_week))
                     /\ lastM' = MResult("create", Len(memberships) + 1, 201)
        /\ UNCHANGED <<today, attendanceVars, notificationVars, templateVars,
                       authVars, config, contentVars, dashboardVars, bulkVars, flightVars>>

\* the spans of section 3 of the data model, in days
offset(type) ==
    CASE type \in {"monthly", "kickboxing"} -> 30
      [] type = "quarterly" -> 90
      [] type = "biannual" -> 180
      [] type = "annual" -> 365

\* a renewal that also puts the membership back to active
renewUpdateReactivating(membership, newEndDate) ==
    [membership EXCEPT !.end_date = newEndDate, !.status = "active"]

\* .update({ end_date: newEndDate, updated_at: now }).eq('id', id): the row after it
renewUpdate(membership, newEndDate) ==
    [membership EXCEPT !.end_date = newEndDate]

\* MembershipsService.renewMembership; fail names the store call that errors
RenewMembership ==
    \E id \in 1..MaxMemberships, fail \in {"none", "fetch", "update"} :
        /\ id <= Len(memberships) =>
              memberships[id].end_date - memberships[id].start_date
                  <= MaxRenewals * offset(memberships[id].type)
        /\ IF id > Len(memberships) \/ fail = "fetch"
           THEN /\ memberships' = memberships
                /\ lastM' = MResult("renew", id, 500)
           ELSE LET membership == memberships[id]
                    newEndDate == RenewEndDate(membership.type, membership.end_date)
                    again == /\ lastM.op = "renew"
                             /\ lastM.status = 201
                             /\ lastM.id = id
                IN  IF fail = "update"
                    THEN /\ memberships' = memberships
                         /\ lastM' = MResult("renew", id, 500)
                    ELSE /\ memberships' = [memberships EXCEPT
                                                ![id] = renewUpdate(membership, newEndDate)]
                         /\ lastM' = [MResult("renew", id, 201) EXCEPT
                                !.streak = IF again THEN lastM.streak + 1 ELSE 1,
                                !.streakStart = IF again THEN lastM.streakStart
                                                ELSE membership.end_date]
        /\ UNCHANGED <<today, attendanceVars, notificationVars, templateVars,
                       authVars, config, contentVars, dashboardVars, bulkVars, flightVars>>

\* .eq('status', 'active').lt('end_date', today): the ids selected, in id order
ExpiredIdsBeforeYesterday ==
    SelectSeq([i \in 1..Len(memberships) |-> i],
              LAMBDA i : memberships[i].status = "active"
                         /\ memberships[i].end_date < today - 1)

ExpiredIds ==
    SelectSeq([i \in 1..Len(memberships) |-> i],
              LAMBDA i : memberships[i].status = "active"
                         /\ memberships[i].end_date < today)

\* the notifications one expired membership causes: e-mail, then WhatsApp when
\* the user row carries a phone; sent is FALSE when one of them failed
NotifyExpiration(notifs, id, emailOut, waOut, insertOk) ==
    LET found == {u \in users : u.id = memberships[id].user_id}
    IN  IF found = {} THEN [notifs |-> notifs, sent |-> TRUE]
        ELSE LET userData == CHOOSE u \in found : TRUE
                 mail == sendEmail(notifs, userData.email, Some(userData.id), Some(id),
                                   DefaultExpirationTemplate("EMAIL"),
                                   emailOut, insertOk, TRUE)
                 wa == sendWhatsApp(mail.notifs, userData.phone[1], Some(userData.id),
                                    Some(id), DefaultExpirationTemplate("WHATSAPP"),
                                    waOut, insertOk, TRUE)
             IN  IF userData.phone = None
                 THEN [notifs |-> mail.notifs, sent |-> mail.ok]
                 ELSE [notifs |-> wa.notifs, sent |-> mail.ok /\ wa.ok]

\* a handler that undoes the expiry and passes the failure on
catchNotificationErrorReverting(sent) ==
    [status |-> IF sent THEN "expired" ELSE "active", rethrown |-> ~sent]

\* What the loop makes of a notification that failed: the status written
\* before the notification stays, and the catch blocks only log.
catchNotificationError(sent) == [status |-> "expired", rethrown |-> FALSE]

RECURSIVE ExpireLoop(_, _, _, _, _, _)
\* the for loop of checkExpiredMemberships over the selected rows
ExpireLoop(ids, failIds, emailOut, waOut, insertOk, acc) ==
    IF ids = <<>> \/ acc.rethrown THEN acc
    ELSE LET id == Head(ids)
         IN  IF id \in failIds
             THEN ExpireLoop(Tail(ids), failIds, emailOut, waOut, insertOk, acc)
             ELSE LET n == NotifyExpiration(acc.notifs, id, emailOut, waOut, insertOk)
                      c == catchNotificationError(n.sent)
                  IN  ExpireLoop(Tail(ids), failIds, emailOut, waOut, insertOk,
                         [mems |-> [acc.mems EXCEPT ![id].status = c.status],
                          notifs |-> n.notifs,
                          failed |-> acc.failed \/ ~n.sent,
                          rethrown |-> c.rethrown])

\* MembershipsService.checkExpiredMemberships behind POST memberships/check-expired;
\* selectOk: the store answers the select; failIds: the rows whose update it
\* rejects; insertOk: the store takes the notification records
CheckExpiredMemberships ==
    \E selectOk \in BOOLEAN, failIds \in SUBSET (1..Len(memberships)),
       emailOut \in Outcomes, waOut \in Outcomes, insertOk \in BOOLEAN :
        /\ \A i \in failIds : \E k \in 1..Len(ExpiredIds) : ExpiredIds[k] = i
        /\ LET start == [mems |-> memberships, notifs |-> notifications,
                         failed |-> FALSE, rethrown |-> FALSE]
               r == IF selectOk
                    THEN ExpireLoop(ExpiredIds, failIds, emailOut, waOut, insertOk, start)
                    ELSE start
           IN  /\ memberships' = r.mems
               /\ notifications' = r.notifs
               /\ lastM' = [MResult("checkExpired", 0, IF r.rethrown THEN 500 ELSE 201)
                              EXCEPT !.selectOk = selectOk, !.rejected = failIds,
                                     !.notifyFailed = r.failed]
        /\ UNCHANGED <<today, attendanceVars, lastN, templateVars, authVars, config, contentVars, dashboardVars, bulkVars, flightVars>>

\* the server's calendar day moves on
AdvanceDay ==
    \E d \in ClockDays :
        /\ d > today
        /\ today' = d
        /\ UNCHANGED <<memberships, lastM, attendanceVars, notificationVars,
                       templateVars, authVars, config, contentVars, dashboardVars, bulkVars, flightVars>>

NextMemberships == MembershipsCreate \/ RenewMembership \/ AdvanceDay

SpecMemberships == InitConfigured /\ [][NextMemberships]_vars

NextExpiry == MembershipsCreate \/ CheckExpiredMemberships \/ AdvanceDay

SpecExpiry == InitConfigured /\ [][NextExpiry]_vars

\* MembershipsService.update with a body that carries a status
MembershipsUpdate ==
    \E id \in 1..MaxMemberships, status \in MembershipStatus, updateOk \in BOOLEAN :
        /\ IF id > Len(memberships) \/ ~updateOk
           THEN /\ memberships' = memberships
                /\ lastM' = MResult("update", id, 500)
           ELSE /\ memberships' = [memberships EXCEPT ![id].status = status]
                /\ lastM' = MResult("update", id, 200)
        /\ UNCHANGED <<today, attendanceVars, notificationVars, templateVars,
                       authVars, config, contentVars, dashboardVars, bulkVars, flightVars>>

\* renewals of memberships of any status
NextRenewal == MembershipsCreate \/ MembershipsUpdate \/ RenewMembership

SpecRenewal == InitConfigured /\ [][NextRenewal]_vars

\* .eq('type', EMAIL).eq('is_default', true).ilike('name', '%renovacion%').limit(1):
\* no name a template carries here contains "renovacion" as ILIKE compares it
\* (the seeded names spell it with an accented vowel)
DefaultRenewalTemplate == None

\* the notifications one renewed membership causes: e-mail, then WhatsApp when
\* the user row carries a phone
NotifyRenewal(notifs, id, emailOut, waOut, insertOk) ==
    LET found == {u \in users : u.id = memberships[id].user_id}
    IN  IF found = {} THEN notifs
        ELSE LET userData == CHOOSE u \in found : TRUE
                 mail == sendEmail(notifs, userData.email, Some(userData.id), Some(id),
                                   DefaultRenewalTemplate, emailOut, insertOk, TRUE)
                 wa == sendWhatsApp(mail.notifs, userData.phone[1], Some(userData.id),
                                    Some(id), DefaultExpirationTemplate("WHATSAPP"),
                                    waOut, insertOk, TRUE)
             IN  IF userData.phone = None THEN mail.notifs ELSE wa.notifs

\* .eq('status', EXPIRED).eq('auto_renew', true); autoRenew: the rows whose
\* auto_renew column is true (no handler writes that column)
AutoRenewIds(autoRenew) ==
    SelectSeq([i \in 1..Len(memberships) |-> i],
              LAMBDA i : memberships[i].status = "expired" /\ i \in autoRenew)

RECURSIVE AutoRenewLoop(_, _, _, _, _, _)
\* the for loop of autoRenewMemberships; renewFails: the rows for which
\* renewMembership throws (caught and logged by the loop)
AutoRenewLoop(ids, renewFails, emailOut, waOut, insertOk, acc) ==
    IF ids = <<>> THEN acc
    ELSE LET id == Head(ids)
         IN  IF id \in renewFails
             THEN AutoRenewLoop(Tail(ids), renewFails, emailOut, waOut, insertOk, acc)
             ELSE LET membership == acc.mems[id]
                      newEndDate == RenewEndDate(membership.type, membership.end_date)
                  IN  AutoRenewLoop(Tail(ids), renewFails, emailOut, waOut, insertOk,
                         [mems |-> [acc.mems EXCEPT
                                       ![id] = renewUpdate(membership, newEndDate)],
                          notifs |-> NotifyRenewal(acc.notifs, id, emailOut, waOut,
                                                   insertOk)])

\* what the two providers do with the messages of one run: <<e-mail, WhatsApp>>
RenewalOutcomes == {<<"accepted", "accepted">>, <<"rejected", "accepted">>,
                    <<"accepted", "threw">>}

\* MembershipsService.autoRenewMemberships; selectOk: the store answers the
\* select.  A run that follows another run directly finds the auto_renew
\* column as that run found it; streak is 2 for such a run and streakStart is
\* the table as it was before the run it follows.
AutoRenewMemberships ==
    \E selectOk \in BOOLEAN, autoRenew \in SUBSET (1..Len(memberships)),
       renewFails \in SUBSET (1..Len(memberships)),
       out \in RenewalOutcomes, insertOk \in BOOLEAN :
      LET emailOut == out[1]
          waOut == out[2]
      IN
        /\ lastM.op = "autoRenew" => autoRenew = lastM.autoRenew
        /\ renewFails \subseteq autoRenew
        /\ \A i \in autoRenew :
              memberships[i].end_date - memberships[i].start_date
                  <= MaxRenewals * offset(memberships[i].type)
        /\ LET start == [mems |-> memberships, notifs |-> notifications]
               r == IF selectOk
                    THEN AutoRenewLoop(AutoRenewIds(autoRenew), renewFails,
                                       emailOut, waOut, insertOk, start)
                    ELSE start
               again == lastM.op = "autoRenew" /\ lastM.status = 201
           IN  /\ Len(r.notifs) <= MaxNotifications
               /\ memberships' = r.mems
               /\ notifications' = r.notifs
               /\ lastM' = [MResult("autoRenew", 0, IF selectOk THEN 201 ELSE 500)
                              EXCEPT !.selectOk = selectOk, !.rejected = renewFails,
                                     !.autoRenew = autoRenew,
                                     !.streak = IF again THEN 2 ELSE 1,
                                     !.streakStart = IF again THEN lastM.before
                                                     ELSE memberships]
        /\ UNCHANGED <<today, attendanceVars, lastN, templateVars, authVars, config,
                       contentVars, dashboardVars, bulkVars, flightVars>>

\* the scheduled run over a table of one membership
FirstMembership == MembershipsCreate /\ memberships = <<>>

NextAutoRenew == FirstMembership \/ MembershipsUpdate \/ AutoRenewMemberships

SpecAutoRenew == InitConfigured /\ [][NextAutoRenew]_vars

(***************************************************************************)
(* Membership date laws.                                                   *)
(***************************************************************************)
\* C1: a membership created with type T and start_date S is stored with
\* end_date = S + offset(T): 30 days for monthly and kickboxing, 90 for
\* quarterly, 180 for biannual, 365 for annual.
C1_CreateEndDateLaw ==
    (lastM.op = "create" /\ lastM.status = 201) =>
        memberships[lastM.id].end_date =
            memberships[lastM.id].start_date + offset(memberships[lastM.id].type)

\* C9: a renewal of a membership of type T whose stored end_date is E stores
\* E + offset(T), and the second of two renewals in a row stores
\* E + 2 x offset(T), whatever the current date is.
C9_RenewalLaw ==
    (lastM.op = "renew" /\ lastM.status = 201) =>
        LET m == memberships[lastM.id]
            E == lastM.before[lastM.id].end_date
        IN  /\ m.end_date = E + offset(m.type)
            /\ lastM.streak = 2 => m.end_date = lastM.streakStart + 2 * offset(m.type)

\* an annual membership renewed twice in a row, the clock having moved since
\* it was created
C9_Witness ==
    /\ lastM.op = "renew"
    /\ lastM.status = 201
    /\ lastM.streak = 2
    /\ today > 0
    /\ memberships[lastM.id].type = "annual"

\* the memberships a run of checkExpiredMemberships was due to expire
DueBefore(i) ==
    /\ lastM.before[i].status = "active"
    /\ lastM.before[i].end_date < lastM.today

AttendanceUserIds == {1, 2, 9}

\* today.setHours(0, 0, 0, 0): the first tick of the current day
StartOfDay(t) == (t \div TicksPerDay) * TicksPerDay

\* the rows of the user with today <= check_in_time < tomorrow
TodaysAttendances(user_id) ==
    {i \in 1..Len(attendances) :
        /\ attendances[i].user_id = user_id
        /\ attendances[i].check_in_time >= StartOfDay(now)
        /\ attendances[i].check_in_time < StartOfDay(now) + TicksPerDay}

\* .maybeSingle() on that query: the row when there is exactly one, no data
\* when there is none, and an error with no data when there are several; the
\* error is logged and the handler goes on as if there were no row
ExistingAttendance(user_id, queryOk) ==
    LET rows == TodaysAttendances(user_id)
    IN  IF queryOk /\ Cardinality(rows) = 1
        THEN Some(CHOOSE i \in rows : TRUE)
        ELSE None

\* membershipsService.findByUser, then the active membership or else the first
ResolveMembership(user_id) ==
    LET mine == {i \in 1..Len(memberships) : memberships[i].user_id = user_id}
        active == {i \in mine : memberships[i].status = "active"}
        least(S) == CHOOSE i \in S : \A j \in S : i <= j
    IN  IF active # {} THEN Some(least(active))
        ELSE IF mine # {} THEN Some(least(mine))
        ELSE None

\* raised: the status of the HttpException first thrown inside the service
\* (0 when none was); unless a catch block changes it, the caller gets it
AResult(op, id, status, user_id, storeOk) ==
    [op |-> op, id |-> id, status |-> status, before |-> attendances,
     user_id |-> user_id, now |-> now, storeOk |-> storeOk,
     raised |-> IF status >= 400 THEN status ELSE 0,
     inserts |-> 0, firstError |-> "none"]

\* the errors the store may answer an insert into attendances with
InsertErrorKinds ==
    {"fk membership_id", "not-null membership_id", "fk user_id", "connection"}

\* the fragments of the store's error message the handler looks for
ErrorMessage(kind) ==
    CASE kind = "fk membership_id" -> {"foreign key", "membership_id"}
      [] kind = "not-null membership_id" ->
            {"violates not-null constraint", "membership_id"}
      [] kind = "fk user_id" -> {"foreign key"}
      [] OTHER -> {}

\* error.message.includes('membership_id') || includes('foreign key') ||
\* includes('violates not-null constraint')
RetriesWithoutMembership(message) ==
    \/ "membership_id" \in message
    \/ "foreign key" \in message
    \/ "violates not-null constraint" \in message

\* a membership id no membership carries
UnknownMembershipId == MaxMemberships + 1

\* What the store can answer the first insert of `row` with: a row naming a
\* membership that does not exist is never taken, and only a row without
\* membership_id can miss it.
FirstInsertAnswers(row) ==
    IF row.membership_id # None /\ row.membership_id[1] \notin 1..Len(memberships)
    THEN {"fk membership_id", "connection"}
    ELSE IF row.membership_id = None
    THEN {"none", "not-null membership_id", "fk user_id", "connection"}
    ELSE {"none", "fk user_id", "connection"}

\* AttendanceService.create (check-in).  queryOk: the store answers the
\* same-day query; insertError: what the store answers the first insert with;
\* retryOk: the store accepts the insert without membership_id
AttendanceCreate ==
    \E user_id \in AttendanceUserIds, dtoCheckIn \in {None, Some(0)},
       dtoMembership \in {None, Some(UnknownMembershipId)},
       queryOk \in BOOLEAN, insertError \in {"none"} \cup InsertErrorKinds,
       retryOk \in BOOLEAN :
        /\ Len(attendances) < MaxAttendances
        /\ LET existing == ExistingAttendance(user_id, queryOk)
               membershipId == IF dtoMembership # None THEN dtoMembership
                               ELSE ResolveMembership(user_id)
               checkIn == IF dtoCheckIn # None THEN dtoCheckIn[1] ELSE now
               row == [user_id |-> user_id, membership_id |-> membershipId,
                       check_in_time |-> checkIn, check_out_time |-> None]
               bare == [row EXCEPT !.membership_id = None]
               newId == Len(attendances) + 1
           IN  /\ insertError \in FirstInsertAnswers(row)
               /\ insertError \in {"not-null membership_id", "fk user_id"} => ~retryOk
               /\ IF \A u \in users : u.id # user_id
                  THEN /\ attendances' = attendances
                       /\ lastA' = AResult("create", 0, 404, user_id, TRUE)
                  ELSE IF existing # None /\ attendances[existing[1]].check_out_time = None
                  THEN /\ attendances' = attendances
                       /\ lastA' = AResult("create", existing[1], 201, user_id, queryOk)
                  ELSE IF insertError = "none"
                  THEN /\ attendances' = Append(attendances, row)
                       /\ lastA' = [AResult("create", newId, 201, user_id, queryOk)
                                       EXCEPT !.inserts = 1]
                  ELSE IF RetriesWithoutMembership(ErrorMessage(insertError))
                  THEN IF retryOk
                       THEN /\ attendances' = Append(attendances, bare)
                            /\ lastA' = [AResult("create", newId, 201, user_id, FALSE)
                                            EXCEPT !.inserts = 2,
                                                   !.firstError = insertError]
                       ELSE /\ attendances' = attendances
                            /\ lastA' = [AResult("create", 0, 500, user_id, FALSE)
                                            EXCEPT !.inserts = 2,
                                                   !.firstError = insertError]
                  ELSE /\ attendances' = attendances
                       /\ lastA' = [AResult("create", 0, 500, user_id, FALSE)
                                       EXCEPT !.inserts = 1,
                                              !.firstError = insertError]
        /\ UNCHANGED <<now, membershipVars, notificationVars, templateVars,
                       authVars, config, contentVars, dashboardVars, bulkVars, flightVars>>

\* a guard that never finds the departure registered
AlreadyCheckedOutNever(attendance) == FALSE

\* if (attendance.check_out_time) in checkOut
AlreadyCheckedOut(attendance) == attendance.check_out_time # None

\* The status the caller of checkOut gets for the 400 thrown inside its try
\* block: the catch wraps whatever it catches into a 500.
CheckOutRejectionStatus == 500

\* AttendanceService.checkOut behind POST attendance/:id/check-out
AttendanceCheckOut ==
    \E id \in 1..MaxAttendances, updateOk \in BOOLEAN :
        /\ IF id > Len(attendances)
           THEN /\ attendances' = attendances
                /\ lastA' = AResult("checkOut", id, 500, 0, TRUE)
           ELSE IF AlreadyCheckedOut(attendances[id])
           THEN /\ attendances' = attendances
                /\ lastA' = [AResult("checkOut", id, CheckOutRejectionStatus,
                                     attendances[id].user_id, TRUE)
                                EXCEPT !.raised = 400]
           ELSE IF ~updateOk
           THEN /\ attendances' = attendances
                /\ lastA' = AResult("checkOut", id, 500, attendances[id].user_id, FALSE)
           ELSE /\ attendances' = [attendances EXCEPT ![id].check_out_time = Some(now)]
                /\ lastA' = AResult("checkOut", id, 201, attendances[id].user_id, TRUE)
        /\ UNCHANGED <<now, membershipVars, notificationVars, templateVars,
                       authVars, config, contentVars, dashboardVars, bulkVars, flightVars>>

\* the check_out_time of a PATCH body: absent, null, or a time
UpdateBodies ==
    { [has_check_out |-> FALSE, check_out_time |-> None],
      [has_check_out |-> TRUE, check_out_time |-> None],
      [has_check_out |-> TRUE, check_out_time |-> Some(MaxTick)] }

\* AttendanceService.update behind PATCH attendance/:id, for the
\* check_out_time field of UpdateAttendanceDto
AttendanceUpdate ==
    \E id \in 1..MaxAttendances, dto \in UpdateBodies, updateOk \in BOOLEAN :
        /\ IF id > Len(attendances) \/ ~updateOk
           THEN /\ attendances' = attendances
                /\ lastA' = AResult("update", id, 500, 0, updateOk)
           ELSE /\ attendances' =
                      IF dto.has_check_out
                      THEN [attendances EXCEPT ![id].check_out_time = dto.check_out_time]
                      ELSE attendances
                /\ lastA' = AResult("update", id, 200, attendances[id].user_id, TRUE)
        /\ UNCHANGED <<now, membershipVars, notificationVars, templateVars,
                       authVars, config, contentVars, dashboardVars, bulkVars, flightVars>>

\* the server clock moves on
Tick ==
    /\ now < MaxTick
    /\ now' = now + 1
    /\ UNCHANGED <<attendances, lastA, membershipVars, notificationVars,
                   templateVars, authVars, config, contentVars, dashboardVars, bulkVars, flightVars>>

NextAttendance == AttendanceCreate \/ AttendanceCheckOut \/ AttendanceUpdate \/ Tick

SpecAttendance == InitConfigured /\ [][NextAttendance]_vars

\* check-ins and check-outs only, every one of them served by the store
ServedCheckIn == AttendanceCreate /\ lastA'.storeOk

ServedCheckOut == AttendanceCheckOut /\ lastA'.storeOk

NextCheckInOut == ServedCheckIn \/ ServedCheckOut \/ Tick

SpecCheckInOut == InitConfigured /\ [][NextCheckInOut]_vars

\* the attendance the last request named existed before the request
TargetExisted == lastA.id \in 1..Len(lastA.before)

\* C2, as stated: a check-out of an attendance whose check_out_time is
\* already set answers 400 and leaves the stored check_out_time unchanged;
\* the first check-out, when the store accepts it, succeeds and sets it.
C2_SecondCheckOutIs400 ==
    (lastA.op = "checkOut" /\ TargetExisted) =>
        IF lastA.before[lastA.id].check_out_time # None
        THEN /\ lastA.status = 400
             /\ attendances[lastA.id].check_out_time
                    = lastA.before[lastA.id].check_out_time
        ELSE lastA.storeOk =>
                /\ lastA.status = 201
                /\ attendances[lastA.id].check_out_time = Some(lastA.now)

\* the user's rows of the day of the last request that had no check_out_time
OpenTodayBefore ==
    {i \in 1..Len(lastA.before) :
        /\ lastA.before[i].user_id = lastA.user_id
        /\ lastA.before[i].check_in_time \div TicksPerDay = lastA.now \div TicksPerDay
        /\ lastA.before[i].check_out_time = None}

\* C3, as stated: when the user already has an attendance of the current day
\* with no check_out_time, a further check-in the store serves inserts no row
\* and returns that attendance; when there is none open, it inserts one row.
C3_IdempotentCheckIn ==
    (lastA.op = "create" /\ lastA.status = 201 /\ lastA.storeOk) =>
        IF OpenTodayBefore # {}
        THEN attendances = lastA.before /\ lastA.id \in OpenTodayBefore
        ELSE Len(attendances) = Len(lastA.before) + 1

\* C4, as stated: no operation changes a check_out_time once it is set.
C4_CheckOutTimeImmutable ==
    \A i \in 1..Len(lastA.before) :
        lastA.before[i].check_out_time # None =>
            attendances[i].check_out_time = lastA.before[i].check_out_time

\* C4, amended: a check-out and a further check-in never change a
\* check_out_time that is set; the only operation that changes or clears it
\* is an update (PATCH) whose body carries check_out_time.
C4_CheckOutTimeKeptByCheckInAndOut ==
    lastA.op \in {"checkOut", "create"} =>
        \A i \in 1..Len(lastA.before) :
            lastA.before[i].check_out_time # None =>
                attendances[i].check_out_time = lastA.before[i].check_out_time

\* a check-out was asked, at a later tick, of an attendance that had left
C4_Witness ==
    /\ lastA.op = "checkOut"
    /\ TargetExisted
    /\ lastA.before[lastA.id].check_out_time # None
    /\ lastA.before[lastA.id].check_out_time # Some(lastA.now)

\* C5, as stated: a send creates its notification record, and when the send
\* returns (the store having taken every write asked of it) the record's
\* status is SENT or FAILED, never still PENDING, whether the provider
\* accepted the message, rejected it, or threw.
C5_SendEndsSentOrFailed ==
    (lastN.op \in {"sendEmail", "sendWhatsApp"} /\ lastN.created /\ lastN.updateOk) =>
        /\ lastN.id \in 1..Len(notifications)
        /\ notifications[lastN.id].status \in {"SENT", "FAILED"}

(***************************************************************************)
(* Notification templates.                                                 *)
(***************************************************************************)
TemplateTypes == {"EMAIL", "WHATSAPP"}

TemplateIds == 1..MaxTemplates

\* update({ is_default: false }).eq('type', type).eq('is_default', true),
\* leaving the row `except` alone (0 for the form without .neq)
UnsetDefaults(rows, type, except) ==
    {IF t.type = type /\ t.is_default /\ t.id # except
     THEN [t EXCEPT !.is_default = FALSE] ELSE t : t \in rows}

\* NotificationsService.createTemplate.  unsetOk: the store applies the
\* unsetting update (its result is not looked at); insertOk: the store takes
\* the insert
CreateTemplate ==
    \E name \in TemplateNames, type \in TemplateTypes, isDefault \in BOOLEAN,
       unsetOk \in BOOLEAN, insertOk \in BOOLEAN :
        /\ nextTemplateId <= MaxTemplates
        /\ LET cleared == IF isDefault /\ unsetOk
                          THEN UnsetDefaults(templates, type, 0) ELSE templates
               row == [id |-> nextTemplateId, name |-> name, type |-> type,
                       is_default |-> isDefault, whatsapp_template_name |-> "promo"]
           IN  /\ templates' = IF insertOk THEN cleared \cup {row} ELSE cleared
               /\ nextTemplateId' = IF insertOk THEN nextTemplateId + 1
                                    ELSE nextTemplateId
               /\ lastT' = [op |-> "createTemplate",
                            id |-> IF insertOk THEN row.id ELSE 0, ok |-> insertOk]
        /\ UNCHANGED <<membershipVars, attendanceVars, notificationVars, authVars, config, contentVars, dashboardVars, bulkVars, flightVars>>

\* the bodies of an update: isDefault absent, false or true, and no other key
TemplateUpdates == [isDefault : {None, Some(FALSE), Some(TRUE)}]

\* NotificationsService.updateTemplate
UpdateTemplate ==
    \E templateId \in TemplateIds, updates \in TemplateUpdates,
       unsetOk \in BOOLEAN, updateOk \in BOOLEAN :
        LET current == {t \in templates : t.id = templateId}
            wantsDefault == updates.isDefault = Some(TRUE)
            cleared == IF wantsDefault /\ current # {} /\ unsetOk
                       THEN UnsetDefaults(templates,
                                          (CHOOSE t \in current : TRUE).type,
                                          templateId)
                       ELSE templates
            written(t) ==
                [t EXCEPT !.is_default = IF updates.isDefault = None THEN @
                                         ELSE updates.isDefault[1]]
            ok == updateOk /\ current # {}
        IN  /\ templates' = IF ok
                            THEN {IF t.id = templateId THEN written(t) ELSE t : t \in cleared}
                            ELSE cleared
            /\ lastT' = [op |-> "updateTemplate", id |-> templateId, ok |-> ok]
            /\ UNCHANGED <<nextTemplateId, membershipVars, attendanceVars, notificationVars,
                           authVars, config, contentVars, dashboardVars, bulkVars, flightVars>>

\* NotificationsService.deleteTemplate
DeleteTemplate ==
    \E templateId \in TemplateIds, deleteOk \in BOOLEAN :
        /\ templates' = IF deleteOk THEN {t \in templates : t.id # templateId}
                        ELSE templates
        /\ lastT' = [op |-> "deleteTemplate", id |-> templateId, ok |-> deleteOk]
        /\ UNCHANGED <<nextTemplateId, membershipVars, attendanceVars, notificationVars, authVars, config, contentVars, dashboardVars, bulkVars, flightVars>>

NextTemplates == CreateTemplate \/ UpdateTemplate \/ DeleteTemplate

SpecTemplates == InitConfigured /\ [][NextTemplates]_vars

\* C6, as stated: in every state reachable from the seeded templates by
\* createTemplate, updateTemplate and deleteTemplate, each notification type
\* has at most one template with is_default = true.
C6_AtMostOneDefaultPerType ==
    \A type \in TemplateTypes :
        Cardinality({t \in templates : t.type = type /\ t.is_default}) <= 1

(***************************************************************************)
(* Guards and the users controller.                                        *)
(***************************************************************************)
\* What a bearer token makes of its user once JwtAuthGuard has accepted it:
\* the subject, the is_admin flag, and the role when the principal carries one.
Principals ==
    UNION {{[sub |-> u.id, is_admin |-> u.is_admin, role |-> r] :
                r \in {u.role, "undefined"}} : u \in users}

\* a request carries no token (None) or the token of a principal
Tokens == {None} \cup {Some(p) : p \in Principals}

\* the routes of MembershipsController behind RolesGuard, and one behind
\* JwtAuthGuard alone
RoleGatedRoutes ==
    {"POST memberships", "GET memberships", "PATCH memberships/:id",
     "DELETE memberships/:id", "POST memberships/:id/renew",
     "POST memberships/check-expired"}

AuthenticatedRoutes == {"GET memberships/:id"}

\* @Roles(...) of the route: None when the handler carries no roles metadata
requiredRoles(route) ==
    IF route \in RoleGatedRoutes THEN Some({"admin"}) ELSE None

\* a guard that admits every authenticated principal
canActivateAnyone(roles, user) == TRUE

\* RolesGuard.canActivate
canActivate(roles, user) ==
    IF roles = None THEN TRUE
    ELSE IF user.is_admin THEN TRUE
    ELSE \E role \in roles[1] : user.role = role

\* JwtAuthGuard, then RolesGuard where the route uses it: the status the
\* guards answer with, 0 when they let the request through to its handler
GuardStatus(route, token) ==
    IF token = None THEN 401
    ELSE IF route \in RoleGatedRoutes /\ ~canActivate(requiredRoles(route), token[1])
    THEN 403
    ELSE 0

ReqResult(route, token, status, served) ==
    [route |-> route, principal |-> token, status |-> status,
     served |-> served, before |-> users, body |-> None]

\* a request to a route of MembershipsController, up to the guards' decision
MembershipsRequest ==
    \E route \in RoleGatedRoutes \cup AuthenticatedRoutes, token \in Tokens :
        /\ lastReq' = LET g == GuardStatus(route, token)
                      IN  ReqResult(route, token, IF g = 0 THEN 200 ELSE g, g = 0)
        /\ UNCHANGED <<users, membershipVars, attendanceVars, notificationVars,
                       templateVars, config, contentVars, dashboardVars, bulkVars, flightVars>>

UsersRoutes == {"GET users", "POST users", "DELETE users/:id"}

\* the id the store gives a new user
FreshUserId ==
    IF users = {} THEN 1
    ELSE 1 + (CHOOSE i \in 1..MaxUsers :
                /\ \E u \in users : u.id = i
                /\ \A u \in users : u.id <= i)

\* bodies of POST users
NewUsers ==
    [email : {"ana@olimpo", "nuevo@olimpo"}, phone : {None},
     is_admin : BOOLEAN, role : Role]

\* UsersController.findAll behind JwtAuthGuard
UsersFindAll ==
    \E token \in Tokens :
        /\ lastReq' = LET g == GuardStatus("GET users", token)
                      IN  ReqResult("GET users", token, IF g = 0 THEN 200 ELSE g, g = 0)
        /\ UNCHANGED <<users, membershipVars, attendanceVars, notificationVars,
                       templateVars, config, contentVars, dashboardVars, bulkVars, flightVars>>

\* UsersController.create and UsersService.create behind JwtAuthGuard.
\* storeError: the message of the store's error, "none" when it inserts; the
\* email column is unique
UsersCreate ==
    \E token \in Tokens, body \in NewUsers,
       storeError \in {"none", "already exists", "other"} :
        /\ FreshUserId <= MaxUsers
        /\ (\E u \in users : u.email = body.email) => storeError # "none"
        /\ LET g == GuardStatus("POST users", token)
               row == [id |-> FreshUserId, email |-> body.email, phone |-> body.phone,
                       is_admin |-> body.is_admin, role |-> body.role]
           IN  IF g # 0
               THEN /\ users' = users
                    /\ lastReq' = ReqResult("POST users", token, g, FALSE)
               ELSE IF storeError = "none"
               THEN /\ users' = users \cup {row}
                    /\ lastReq' = ReqResult("POST users", token, 201, TRUE)
               ELSE /\ users' = users
                    /\ lastReq' = ReqResult("POST users", token,
                                            IF storeError = "already exists"
                                            THEN 409 ELSE 500, TRUE)
        /\ UNCHANGED <<membershipVars, attendanceVars, notificationVars,
                       templateVars, config, contentVars, dashboardVars, bulkVars, flightVars>>

\* what UsersService.remove returns once the store has taken the delete:
\* true, whether or not a row had the id
removeReturns(existed) == TRUE

\* UsersController.remove and UsersService.remove behind JwtAuthGuard.
\* deleteOk: the store takes the delete; the controller answers 404 when the
\* service returns a falsy value
UsersRemove ==
    \E token \in Tokens, id \in 1..MaxUsers, deleteOk \in BOOLEAN :
        /\ LET g == GuardStatus("DELETE users/:id", token)
               answer(status, served) ==
                   [ReqResult("DELETE users/:id", token, status, served)
                       EXCEPT !.body = Some([id |-> id])]
           IN  IF g # 0
               THEN /\ users' = users
                    /\ lastReq' = answer(g, FALSE)
               ELSE IF ~deleteOk
               THEN /\ users' = users
                    /\ lastReq' = answer(500, TRUE)
               ELSE /\ users' = {u \in users : u.id # id}
                    /\ lastReq' = answer(IF removeReturns(\E u \in users : u.id = id)
                                         THEN 200 ELSE 404, TRUE)
        /\ UNCHANGED <<membershipVars, attendanceVars, notificationVars,
                       templateVars, config, contentVars, dashboardVars, bulkVars, flightVars>>

\* bodies of POST auth/register that pass the validation pipe
RegisterBodies ==
    [email : {"ana@olimpo", "nuevo@olimpo"}, passwordsMatch : BOOLEAN]

\* a lookup that never finds the user
findByEmailNobody(email) == {}

\* UsersService.findByEmail: the rows .eq('email', email).limit(1) answers
findByEmail(email) == {u \in users : u.email = email}

\* AuthController.register and AuthService.register (the route has no guard).
\* lookupOk: the store answers findByEmail; insertError as in UsersCreate
AuthRegister ==
    \E body \in RegisterBodies, lookupOk \in BOOLEAN,
       insertError \in {"none", "already exists", "other"} :
        /\ FreshUserId <= MaxUsers
        /\ (\E u \in users : u.email = body.email) => insertError # "none"
        /\ LET row == [id |-> FreshUserId, email |-> body.email,
                       phone |-> Some(<<"1", "5">>),
                       is_admin |-> FALSE, role |-> "user"]
               answer(status) ==
                   [ReqResult("POST auth/register", None, status, TRUE)
                       EXCEPT !.body = Some(body @@ [lookupOk |-> lookupOk])]
           IN  IF ~body.passwordsMatch
               THEN /\ users' = users
                    /\ lastReq' = answer(400)
               ELSE IF ~lookupOk
               THEN /\ users' = users
                    /\ lastReq' = answer(500)
               ELSE IF findByEmail(body.email) # {}
               THEN /\ users' = users
                    /\ lastReq' = answer(409)
               ELSE IF insertError = "none"
               THEN /\ users' = users \cup {row}
                    /\ lastReq' = answer(201)
               ELSE /\ users' = users
                    /\ lastReq' = answer(500)
        /\ UNCHANGED <<membershipVars, attendanceVars, notificationVars,
                       templateVars, config, contentVars, dashboardVars, bulkVars, flightVars>>

\* bodies of POST auth/login
LoginEmails == {"ana@olimpo", "nuevo@olimpo", "nadie@olimpo"}

\* a login that tells an unknown email from a wrong password
loginResponseTelling(userFound, isPasswordValid) ==
    IF ~userFound THEN [status |-> 404, message |-> "Usuario no encontrado"]
    ELSE IF ~isPasswordValid
         THEN [status |-> 401, message |-> "Credenciales inválidas"]
         ELSE [status |-> 200, message |-> "Inicio de sesión exitoso"]

\* what AuthService.login answers once findByEmail has answered
loginResponse(userFound, isPasswordValid) ==
    IF ~userFound THEN [status |-> 401, message |-> "Credenciales inválidas"]
    ELSE IF ~isPasswordValid
         THEN [status |-> 401, message |-> "Credenciales inválidas"]
         ELSE [status |-> 200, message |-> "Inicio de sesión exitoso"]

\* AuthController.login and AuthService.login (the route has no guard).
\* isPasswordValid: what bcrypt.compare answers for the password given and
\* the stored hash; lookupOk: the store answers findByEmail
AuthLogin ==
    \E email \in LoginEmails, isPasswordValid \in BOOLEAN, lookupOk \in BOOLEAN :
        /\ LET response ==
                   IF ~lookupOk
                   THEN [status |-> 500, message |-> "store error"]
                   ELSE loginResponse(findByEmail(email) # {}, isPasswordValid)
           IN  lastReq' = [ReqResult("POST auth/login", None, response.status, TRUE)
                              EXCEPT !.body = Some([email |-> email,
                                                    isPasswordValid |-> isPasswordValid,
                                                    lookupOk |-> lookupOk,
                                                    message |-> response.message])]
        /\ UNCHANGED <<users, membershipVars, attendanceVars, notificationVars,
                       templateVars, config, contentVars, dashboardVars, bulkVars,
                       flightVars>>

\* bodies of PATCH users/:id: a Partial<User>, is_admin None when absent
UserPatches == [is_admin : {None, Some(TRUE), Some(FALSE)}]

\* UsersController.update and UsersService.update behind JwtAuthGuard: the
\* body is spread into the update, so is_admin is written when it is present.
\* updateOk: the store takes the update
UsersUpdate ==
    \E token \in Tokens, id \in 1..MaxUsers, body \in UserPatches,
       updateOk \in BOOLEAN :
        /\ LET g == GuardStatus("PATCH users/:id", token)
               patched(u) ==
                   IF u.id = id /\ body.is_admin # None
                   THEN [u EXCEPT !.is_admin = body.is_admin[1]]
                   ELSE u
               answer(status, served) ==
                   [ReqResult("PATCH users/:id", token, status, served)
                       EXCEPT !.body = Some(body)]
           IN  IF g # 0
               THEN /\ users' = users
                    /\ lastReq' = answer(g, FALSE)
               ELSE IF ~updateOk
               THEN /\ users' = users
                    /\ lastReq' = answer(500, TRUE)
               ELSE IF \A u \in users : u.id # id
               THEN /\ users' = users
                    /\ lastReq' = answer(404, TRUE)
               ELSE /\ users' = {patched(u) : u \in users}
                    /\ lastReq' = answer(200, TRUE)
        /\ UNCHANGED <<membershipVars, attendanceVars, notificationVars,
                       templateVars, config, contentVars, dashboardVars, bulkVars,
                       flightVars>>

\* bodies of POST test-user: the email given, or the default one
TestUserEmails == {"ana@olimpo", "test@olimpogym.com"}

\* AppController.createTestUser: the route has no guard, so the token, if
\* any, is not looked at.  For an email nobody has it inserts a user with
\* is_admin true; for a stored email it checks or rewrites the password and
\* leaves the other columns.  Every outcome is returned, none thrown.
\* lookupOk, insertOk: the store answers the select, takes the insert
CreateTestUser ==
    \E token \in Tokens, email \in TestUserEmails, lookupOk \in BOOLEAN,
       insertOk \in BOOLEAN :
        /\ FreshUserId <= MaxUsers
        /\ LET row == [id |-> FreshUserId, email |-> email,
                       phone |-> Some(<<"1", "2", "3", "4">>),
                       is_admin |-> TRUE, role |-> "user"]
               answer(outcome) ==
                   [ReqResult("POST test-user", token, 201, TRUE)
                       EXCEPT !.body = Some([email |-> email, outcome |-> outcome])]
           IN  IF ~lookupOk
               THEN /\ users' = users
                    /\ lastReq' = answer("error")
               ELSE IF \E u \in users : u.email = email
               THEN /\ users' = users
                    /\ lastReq' = answer("success")
               ELSE IF insertOk
               THEN /\ users' = users \cup {row}
                    /\ lastReq' = answer("success")
               ELSE /\ users' = users
                    /\ lastReq' = answer("error")
        /\ UNCHANGED <<membershipVars, attendanceVars, notificationVars,
                       templateVars, config, contentVars, dashboardVars, bulkVars,
                       flightVars>>

NextAdminFlag == UsersCreate \/ UsersUpdate \/ CreateTestUser

SpecAdminFlag == InitConfigured /\ [][NextAdminFlag]_vars

NextRegister == AuthRegister \/ UsersRemove

NextLogin == AuthLogin \/ AuthRegister \/ UsersRemove

SpecLogin == InitConfigured /\ [][NextLogin]_vars

SpecRegister == InitConfigured /\ [][NextRegister]_vars

NextAuth == MembershipsRequest \/ UsersFindAll \/ UsersCreate \/ UsersRemove

SpecAuth == InitConfigured /\ [][NextAuth]_vars

\* C7: a request with a token to a role-gated route is admitted if and only
\* if the principal is an admin or the principal's role is in the route's
\* allow-list; otherwise it is answered 403 and not served.  In particular a
\* principal that is neither is answered 403 on an admin-only route.
C7_RoleGateAdmitsIff ==
    (lastReq.route \in RoleGatedRoutes /\ lastReq.principal # None) =>
        LET p == lastReq.principal[1]
            allowed == p.is_admin \/ p.role = "admin"
        IN  /\ lastReq.served <=> allowed
            /\ ~allowed => lastReq.status = 403
            /\ allowed => lastReq.status # 403

\* a non-admin token was turned away from an admin-only route
C7_Witness ==
    /\ lastReq.route \in RoleGatedRoutes
    /\ lastReq.principal # None
    /\ ~lastReq.principal[1].is_admin
    /\ lastReq.principal[1].role = "user"
    /\ lastReq.status = 403
    /\ ~lastReq.served

\* C8, as stated: GET users, POST users and DELETE users/:id are served only
\* to an administrator token; with a non-admin token the request is rejected
\* and neither reads nor changes user data.
C8_UsersRoutesAdminOnly ==
    (/\ lastReq.route \in UsersRoutes
     /\ lastReq.principal # None
     /\ ~lastReq.principal[1].is_admin
     /\ lastReq.principal[1].role # "admin") =>
        /\ lastReq.status \in {401, 403}
        /\ ~lastReq.served
        /\ users = lastReq.before

(***************************************************************************)
(* Error handling of the expiry run, attendance and registration.          *)
(***************************************************************************)
\* C11: when a notification (e-mail or WhatsApp) fails during
\* checkExpiredMemberships the run still returns normally to its caller, and
\* every due membership whose status update the store took is expired.
C11_NotificationFailureKeepsExpiry ==
    (lastM.op = "checkExpired" /\ lastM.notifyFailed) =>
        /\ lastM.status = 201
        /\ \A i \in 1..Len(lastM.before) :
              (DueBefore(i) /\ i \notin lastM.rejected) =>
                  memberships[i].status = "expired"

\* a run in which a notification for an expired membership failed and left
\* its record unsent
C11_Witness ==
    /\ lastM.op = "checkExpired"
    /\ lastM.notifyFailed
    /\ \E i \in 1..Len(lastM.before) :
          /\ DueBefore(i)
          /\ memberships[i].status = "expired"
          /\ \E k \in 1..Len(notifications) :
                /\ notifications[k].membership_id = Some(i)
                /\ notifications[k].status # "SENT"

\* C12, as stated: when a service method raises a typed HTTP error inside,
\* the caller receives that same status code; a typed error is never turned
\* into a 500.
C12_TypedErrorsPassThrough ==
    lastA.raised # 0 => lastA.status = lastA.raised

\* C13, as stated: a check-in makes a second insert, without membership_id,
\* exactly when the first insert failed on a foreign-key or not-null violation
\* of membership_id; no other failure is retried, and there is never a third
\* insert.
C13_RetryOnlyForMembershipId ==
    lastA.op = "create" =>
        /\ lastA.inserts <= 2
        /\ lastA.inserts = 2 <=>
              lastA.firstError \in {"fk membership_id", "not-null membership_id"}
        /\ (lastA.inserts = 2 /\ lastA.status = 201) =>
              attendances[lastA.id].membership_id = None

(***************************************************************************)
(* Blog and products: slugs.                                               *)
(***************************************************************************)
\* titles and names a request may carry
Titles == {"Rutina de Fuerza", "rutina de fuerza!", "Promo Verano"}

\* slugify(text, { lower: true, strict: true })
slugify(text) ==
    CASE text = "Rutina de Fuerza" -> "rutina-de-fuerza"
      [] text = "rutina de fuerza!" -> "rutina-de-fuerza"
      [] text = "Promo Verano" -> "promo-verano"

\* A stored slug is <<>> when the column is null, <<base>> for the plain slug
\* and <<base, t>> for `${base}-${t}`.
\* .select('slug').eq('slug', slug).neq('id', except).maybeSingle(): data is
\* the row when exactly one matches, and null otherwise (except = 0: no .neq)
existingWithSlug(rows, slug, except) ==
    Cardinality({i \in 1..Len(rows) : rows[i].slug = slug /\ i # except}) = 1

\* finalSlug, with t the value Date.now() gives
finalSlug(rows, text, except, t) ==
    IF existingWithSlug(rows, <<slugify(text)>>, except)
    THEN <<slugify(text), t>>
    ELSE <<slugify(text)>>

CResult(op, id, status, text, rows) ==
    [op |-> op, id |-> id, status |-> status, text |-> text, before |-> rows]

\* BlogService.create; the clock has moved on since the request before
BlogCreate ==
    \E title \in Titles, insertOk \in BOOLEAN :
        /\ Len(posts) < MaxPosts
        /\ dateNow < MaxMillis
        /\ dateNow' = dateNow + 1
        /\ IF insertOk
           THEN /\ posts' = Append(posts,
                      [title |-> title,
                       slug |-> finalSlug(posts, title, 0, dateNow')])
                /\ lastC' = CResult("blog.create", Len(posts) + 1, 201, title, posts)
           ELSE /\ posts' = posts
                /\ lastC' = CResult("blog.create", 0, 500, title, posts)
        /\ UNCHANGED <<products, membershipVars, attendanceVars, notificationVars,
                       templateVars, authVars, config, dashboardVars, bulkVars, flightVars>>

\* BlogService.update with a body that carries a title
BlogUpdate ==
    \E id \in 1..MaxPosts, title \in Titles, updateOk \in BOOLEAN :
        /\ dateNow < MaxMillis
        /\ dateNow' = dateNow + 1
        /\ IF id > Len(posts) \/ ~updateOk
           THEN /\ posts' = posts
                /\ lastC' = CResult("blog.update", id, 500, title, posts)
           ELSE /\ posts' = [posts EXCEPT ![id] =
                      [title |-> title,
                       slug |-> finalSlug(posts, title, id, dateNow')]]
                /\ lastC' = CResult("blog.update", id, 200, title, posts)
        /\ UNCHANGED <<products, membershipVars, attendanceVars, notificationVars,
                       templateVars, authVars, config, dashboardVars, bulkVars, flightVars>>

NextBlog == BlogCreate \/ BlogUpdate

SpecBlog == InitConfigured /\ [][NextBlog]_vars

\* ProductsService.create as in the copy of the service whose productData has
\* no slug: finalSlug is computed and the row is stored without it
ProductsCreate ==
    \E name \in Titles, insertOk \in BOOLEAN :
        /\ Len(products) < MaxPosts
        /\ dateNow < MaxMillis
        /\ dateNow' = dateNow + 1
        /\ IF insertOk
           THEN /\ products' = Append(products, [title |-> name, slug |-> <<>>])
                /\ lastC' = CResult("products.create", Len(products) + 1, 201,
                                    name, products)
           ELSE /\ products' = products
                /\ lastC' = CResult("products.create", 0, 500, name, products)
        /\ UNCHANGED <<posts, membershipVars, attendanceVars, notificationVars,
                       templateVars, authVars, config, dashboardVars, bulkVars, flightVars>>

\* ProductsService.update of the same copy, with a body that carries a name
ProductsUpdate ==
    \E id \in 1..MaxPosts, name \in Titles, updateOk \in BOOLEAN :
        /\ dateNow < MaxMillis
        /\ dateNow' = dateNow + 1
        /\ IF id > Len(products) \/ ~updateOk
           THEN /\ products' = products
                /\ lastC' = CResult("products.update", id, 500, name, products)
           ELSE /\ products' = [products EXCEPT ![id] =
                      [title |-> name,
                       slug |-> finalSlug(products, name, id, dateNow')]]
                /\ lastC' = CResult("products.update", id, 200, name, products)
        /\ UNCHANGED <<posts, membershipVars, attendanceVars, notificationVars,
                       templateVars, authVars, config, dashboardVars, bulkVars, flightVars>>

NextProducts == ProductsCreate \/ ProductsUpdate

SpecProducts == InitConfigured /\ [][NextProducts]_vars

(***************************************************************************)
(* Dashboard: new users of the month.                                      *)
(***************************************************************************)
\* Days are counted from the first day of the previous month (day 0), and a
\* created_at is the day it falls on.
\* the number of days of the previous month
PrevMonthDays == 30

\* new Date(now.getFullYear(), now.getMonth() - 1, 1)
firstDayPreviousMonth == 0

\* new Date(now.getFullYear(), now.getMonth(), 0): midnight at the start of
\* the last day of the previous month
lastDayPreviousMonth == PrevMonthDays - 1

\* new Date(now.getFullYear(), now.getMonth(), 1)
firstDayCurrentMonth == PrevMonthDays

\* created_at values of the users table: the month before the previous one,
\* the first, a middle and the last day of the previous month, the first and
\* the second day of the current month
CreatedAtDays == {-1, 0, PrevMonthDays - 2, PrevMonthDays - 1, PrevMonthDays,
                  PrevMonthDays + 1}

\* .gte('created_at', firstDayCurrentMonth)
currentMonthUsers(created) ==
    {i \in 1..Len(created) : created[i] >= firstDayCurrentMonth}

\* .gte('created_at', firstDayPreviousMonth).lt('created_at', lastDayPreviousMonth)
previousMonthUsers(created) ==
    {i \in 1..Len(created) :
        created[i] >= firstDayPreviousMonth /\ created[i] < lastDayPreviousMonth}

\* percentChange, as the exact fraction num / den
percentChange(currentCount, previousCount) ==
    IF previousCount = 0
    THEN [num |-> 100, den |-> 1]
    ELSE [num |-> (currentCount - previousCount) * 100, den |-> previousCount]

\* DashboardService.getNewUsersStats over a users table with the given
\* created_at values; queryOk: the store answers both queries
GetNewUsersStats ==
    \E n \in 0..MaxNewUsers, queryOk \in BOOLEAN :
        \E created \in [1..n -> CreatedAtDays] :
            /\ lastStats' =
                  IF queryOk
                  THEN [op |-> "getNewUsersStats", status |-> 200, created |-> created,
                        count |-> Cardinality(currentMonthUsers(created)),
                        percentChange |->
                            percentChange(Cardinality(currentMonthUsers(created)),
                                          Cardinality(previousMonthUsers(created)))]
                  ELSE [op |-> "getNewUsersStats", status |-> 500, created |-> created,
                        count |-> 0, percentChange |-> [num |-> 0, den |-> 1]]
            /\ UNCHANGED <<membershipVars, attendanceVars, notificationVars,
                           templateVars, authVars, config, contentVars, bulkVars, flightVars>>

NextDashboard == GetNewUsersStats

SpecDashboard == InitConfigured /\ [][NextDashboard]_vars

\* users created in the previous month and in the current month, among the
\* created_at values the last getNewUsersStats ran over
CreatedPrevMonth ==
    Cardinality({i \in 1..Len(lastStats.created) :
                    lastStats.created[i] \in 0..(PrevMonthDays - 1)})

CreatedThisMonth ==
    Cardinality({i \in 1..Len(lastStats.created) :
                    lastStats.created[i] >= PrevMonthDays})

\* C19, as stated: with P users created in the previous month and C in the
\* current one, getNewUsersStats returns percentChange = 100 when P = 0 and
\* C > 0, and percentChange = (C - P) / P x 100 when P > 0, negative when C < P.
C19_PercentChangeLaw ==
    (lastStats.op = "getNewUsersStats" /\ lastStats.status = 200) =>
        LET P == CreatedPrevMonth
            C == CreatedThisMonth
            pc == lastStats.percentChange
        IN  /\ (P = 0 /\ C > 0) => pc.num = 100 * pc.den
            /\ P > 0 => pc.num * P = (C - P) * 100 * pc.den
            /\ (P > 0 /\ C < P) => pc.num < 0

\* the table the last blog or products operation worked on, as it is now
TableNow == IF lastC.op \in {"blog.create", "blog.update"} THEN posts ELSE products

\* C14, as stated: when a post or product is created with the title or name
\* of an earlier row (one that is not itself a disambiguated second row), both
\* rows are stored with slugs, the slugs are distinct, and the later row's
\* slug carries a disambiguating suffix on the earlier row's slug.
C14_SameTitleDistinctSlugs ==
    (lastC.op \in {"blog.create", "products.create"} /\ lastC.status = 201) =>
        \A i \in 1..Len(lastC.before) :
            (lastC.before[i].title = lastC.text /\ Len(lastC.before[i].slug) # 2) =>
                /\ TableNow[i].slug = <<slugify(lastC.text)>>
                /\ Len(TableNow[lastC.id].slug) = 2
                /\ TableNow[lastC.id].slug[1] = slugify(lastC.text)
                /\ \A j \in 1..Len(TableNow) :
                      j # lastC.id => TableNow[j].slug # TableNow[lastC.id].slug

\* C15, as stated: an update whose title or name slugifies to the slug of a
\* different row stores a suffixed slug, and an update with the title or name
\* the row already has leaves its slug as it was.
C15_UpdateSlugLaw ==
    (lastC.op \in {"blog.update", "products.update"} /\ lastC.status = 200) =>
        /\ (\E i \in 1..Len(lastC.before) :
                i # lastC.id /\ lastC.before[i].slug = <<slugify(lastC.text)>>)
              => (/\ Len(TableNow[lastC.id].slug) = 2
                  /\ \A i \in 1..Len(TableNow) :
                        i # lastC.id => TableNow[i].slug # TableNow[lastC.id].slug)
        /\ lastC.before[lastC.id].title = lastC.text
              => TableNow[lastC.id].slug = lastC.before[lastC.id].slug

\* C16: a register request whose passwords match, with an email a stored user
\* already has, is answered 409 when the lookup of the email answers, and in
\* every case leaves the users table without a new row.
C16_DuplicateEmailIs409 ==
    (/\ lastReq.route = "POST auth/register"
     /\ lastReq.body[1].passwordsMatch
     /\ \E u \in lastReq.before : u.email = lastReq.body[1].email) =>
        /\ users = lastReq.before
        /\ lastReq.body[1].lookupOk => lastReq.status = 409

C16_Witness ==
    /\ lastReq.route = "POST auth/register"
    /\ lastReq.body[1].passwordsMatch
    /\ lastReq.body[1].lookupOk
    /\ \E u \in lastReq.before : u.email = lastReq.body[1].email
    /\ lastReq.status = 409
    /\ users = lastReq.before

\* the provider credentials the last send needed are absent
CredentialsAbsent ==
    \/ lastN.op = "sendEmail" /\ ~config.sendgrid
    \/ lastN.op = "sendWhatsApp" /\ ~config.whatsapp

\* C17: when the provider credentials are absent, sendEmail and sendWhatsApp
\* return false (nothing is thrown to the caller), and the notification
\* record created for the send, the store having taken the writes asked of
\* it, has status FAILED.
C17_AbsentCredentialsFailSend ==
    CredentialsAbsent =>
        /\ ~lastN.ok
        /\ (lastN.created /\ lastN.updateOk) =>
              /\ lastN.id \in 1..Len(notifications)
              /\ notifications[lastN.id].status = "FAILED"

C17_Witness ==
    /\ CredentialsAbsent
    /\ lastN.created /\ lastN.updateOk
    /\ ~lastN.ok
    /\ notifications[lastN.id].status = "FAILED"
    /\ \E k \in 1..Len(notifications) :
          notifications[k].type = "WHATSAPP" /\ notifications[k].status = "FAILED"

\* C18, as stated: the recipient number sendWhatsApp stores and passes to the
\* provider has no leading '+' and carries the country code: a leading 0 is
\* replaced by 54, a leading 15 by 549, and 54 is prepended to a number that
\* does not carry it.
C18_RecipientHasCountryCodeAndNoPlus ==
    (lastN.op = "sendWhatsApp" /\ lastN.created) =>
        LET phone == lastN.to[1]
            recipient == notifications[lastN.id].recipient[1]
        IN  /\ ~startsWith(recipient, <<"+">>)
            /\ startsWith(recipient, <<"5", "4">>)
            /\ startsWith(phone, <<"0">>)
                  => recipient = <<"5", "4">> \o substring(phone, 1)
            /\ startsWith(phone, <<"1", "5">>)
                  => recipient = <<"5", "4", "9">> \o substring(phone, 2)

(***************************************************************************)
(* What a renewal leaves alone.                                            *)
(***************************************************************************)
\* C20: renewMembership changes only the end_date of the membership it is
\* given: its status, user, type, start_date and days_per_week are as they
\* were before the call, no other membership is touched, and a renewal that
\* fails changes nothing.
C20_RenewChangesOnlyEndDate ==
    lastM.op = "renew" =>
        /\ Len(memberships) = Len(lastM.before)
        /\ \A i \in 1..Len(memberships) :
              IF i = lastM.id /\ lastM.status = 201
              THEN memberships[i] =
                      [lastM.before[i] EXCEPT !.end_date = memberships[i].end_date]
              ELSE memberships[i] = lastM.before[i]

\* an expired membership renewed: its end_date moved and it is still expired
C20_Witness ==
    /\ lastM.op = "renew"
    /\ lastM.status = 201
    /\ lastM.before[lastM.id].status = "expired"
    /\ memberships[lastM.id].status = "expired"
    /\ memberships[lastM.id].end_date > lastM.before[lastM.id].end_date

(***************************************************************************)
(* Bulk email.                                                             *)
(***************************************************************************)
batchSize == 50

\* lengths of the emails array of a bulk request
BulkSizes == {0, 49, 50, 51, 100, 101, 120}

\* the largest notifications table a bulk run is started on
MaxBulkRecords == 120

\* number of rounds of the loop `for (i = 0; i < emails.length; i += batchSize)`
BatchCount(n) == (n + batchSize - 1) \div batchSize

\* emails.slice(i, i + batchSize) of round b (counted from 1): the positions
\* of its addresses in the array
Batch(n, b) ==
    {k \in 1..n : k > (b - 1) * batchSize /\ k <= b * batchSize}

\* the records createNotificationRecord stores for a batch
BatchRecords(n, b, status) ==
    LET first == (b - 1) * batchSize
        size == Cardinality(Batch(n, b))
    IN  [k \in 1..size |->
            [NotificationRecord("EMAIL", Some(first + k), None, None, None)
                EXCEPT !.status = status]]

\* a rule that accepts a run in which exactly half failed
bulkSuccessWithHalf(sent, failed, n) == sent > 0 /\ 2 * failed <= n

\* results.success = results.sent > 0 && results.failed < emails.length * 0.5
bulkSuccess(sent, failed, n) == sent > 0 /\ 2 * failed < n

RECURSIVE BulkLoop(_, _, _, _, _, _)
\* The loop over the batches.  sendFails: the batches sgMail.send rejects;
\* storeFails: the batch during which the store begins to refuse inserts
\* (0: never); storeRecovers: it takes the inserts of the catch block again.
\* acc.thrown: an insert of the catch block threw out of the loop.
BulkLoop(n, b, sendFails, storeFails, storeRecovers, acc) ==
    IF b > BatchCount(n) \/ acc.thrown THEN acc
    ELSE LET size == Cardinality(Batch(n, b))
             sendOk == b \notin sendFails
             insertOk == storeFails = 0 \/ b < storeFails
             catchInsertOk == insertOk \/ (storeFails = b /\ storeRecovers)
             afterTry ==
                 IF sendOk
                 THEN [acc EXCEPT !.sent = @ + size,
                                  !.delivered = @ + size,
                                  !.batches = Append(@, size),
                                  !.notifs = IF insertOk
                                             THEN @ \o BatchRecords(n, b, "SENT")
                                             ELSE @]
                 ELSE [acc EXCEPT !.batches = Append(@, size)]
             caught == ~sendOk \/ ~insertOk
             afterCatch ==
                 IF ~caught THEN afterTry
                 ELSE IF catchInsertOk
                      THEN [afterTry EXCEPT !.failed = @ + size,
                                            !.notifs = @ \o BatchRecords(n, b, "FAILED")]
                      ELSE [afterTry EXCEPT !.failed = @ + size, !.thrown = TRUE]
         IN  BulkLoop(n, b + 1, sendFails, storeFails, storeRecovers, afterCatch)

\* NotificationsService.sendBulkEmail
SendBulkEmail ==
    \E n \in BulkSizes, storeRecovers \in BOOLEAN :
        \E sendFails \in SUBSET (1..BatchCount(n)), storeFails \in 0..BatchCount(n) :
            /\ Len(notifications) + n <= MaxBulkRecords
            /\ LET r == BulkLoop(n, 1, sendFails, storeFails, storeRecovers,
                                 [sent |-> 0, failed |-> 0, delivered |-> 0,
                                  batches |-> <<>>, notifs |-> notifications,
                                  thrown |-> FALSE])
               IN  /\ notifications' = r.notifs
                   /\ lastBulk' =
                         IF r.thrown
                         THEN [op |-> "sendBulkEmail", emails |-> n,
                               batches |-> r.batches, delivered |-> r.delivered,
                               success |-> FALSE, sent |-> r.sent,
                               failed |-> n - r.sent]
                         ELSE [op |-> "sendBulkEmail", emails |-> n,
                               batches |-> r.batches, delivered |-> r.delivered,
                               success |-> bulkSuccess(r.sent, r.failed, n),
                               sent |-> r.sent, failed |-> r.failed]
            /\ UNCHANGED <<lastN, membershipVars, attendanceVars, templateVars,
                           authVars, config, contentVars, dashboardVars, flightVars>>

NextBulk == SendBulkEmail

SpecBulk == InitConfigured /\ [][NextBulk]_vars

(***************************************************************************)
(* Notifications of the expiry run, bulk email, login.                     *)
(***************************************************************************)
\* the stored user a membership belongs to has a phone
MemberHasPhone(i) ==
    \E u \in users : u.id = memberships[i].user_id /\ u.phone # None

\* C21, as stated: a WhatsApp notification exists for a membership only if
\* its user has a phone and a matching default WhatsApp template exists, and
\* a run whose notifications all went out has left an email notification for
\* every membership it expired whose user is stored.
C21_WhatsAppOnlyWithPhoneAndTemplate ==
    /\ \A k \in 1..Len(notifications) :
          (notifications[k].type = "WHATSAPP" /\ notifications[k].membership_id # None) =>
              /\ MemberHasPhone(notifications[k].membership_id[1])
              /\ DefaultExpirationTemplate("WHATSAPP") # None
    /\ (lastM.op = "checkExpired" /\ ~lastM.notifyFailed) =>
          \A i \in 1..Len(lastM.before) :
              (/\ DueBefore(i) /\ i \notin lastM.rejected /\ lastM.selectOk
               /\ \E u \in users : u.id = memberships[i].user_id) =>
                  \E k \in 1..Len(notifications) :
                      /\ notifications[k].type = "EMAIL"
                      /\ notifications[k].membership_id = Some(i)

\* C22: sendBulkEmail hands the provider batches of at most batchSize
\* recipients, and answers success = true only when the provider accepted
\* the batches of strictly more than half of all the recipients.
C22_BulkBatchesAndMajority ==
    lastBulk.op = "sendBulkEmail" =>
        /\ \A b \in 1..Len(lastBulk.batches) : lastBulk.batches[b] \in 1..batchSize
        /\ lastBulk.success => 2 * lastBulk.delivered > lastBulk.emails

\* a run of three batches, one of them rejected, that answers success
C22_Witness ==
    /\ lastBulk.op = "sendBulkEmail"
    /\ lastBulk.emails > 2 * batchSize
    /\ Len(lastBulk.batches) = 3
    /\ lastBulk.failed > 0
    /\ lastBulk.success
    /\ 2 * lastBulk.delivered > lastBulk.emails

\* C23: a login refused for a registered email with a wrong password gets
\* the response a login with an email of no user gets (401 and the same
\* message), so the two cases cannot be told apart by the response.
C23_LoginFailuresIndistinguishable ==
    (/\ lastReq.route = "POST auth/login"
     /\ lastReq.body[1].lookupOk
     /\ ~lastReq.body[1].isPasswordValid) =>
        /\ lastReq.status = 401
        /\ lastReq.status = loginResponse(FALSE, FALSE).status
        /\ lastReq.body[1].message = loginResponse(FALSE, FALSE).message
        /\ users = lastReq.before

\* a refused login for the email of a user registered a moment before
C23_Witness ==
    /\ lastReq.route = "POST auth/login"
    /\ lastReq.body[1].lookupOk
    /\ ~lastReq.body[1].isPasswordValid
    /\ lastReq.body[1].email = "nuevo@olimpo"
    /\ \E u \in users : u.email = "nuevo@olimpo"
    /\ lastReq.status = 401

(***************************************************************************)
(* Attendance of one day; renewals by the scheduled run.                   *)
(***************************************************************************)
\* the open attendances (no check_out_time) of a user on a day
OpenOn(user_id, day) ==
    {i \in 1..Len(attendances) :
        /\ attendances[i].user_id = user_id
        /\ attendances[i].check_in_time \div TicksPerDay = day
        /\ attendances[i].check_out_time = None}

\* C24, as stated: after any sequence of check-ins and check-outs, one after
\* the other, a user has at most one open attendance on any one day.
C24_AtMostOneOpenPerDay ==
    \A user_id \in AttendanceUserIds : \A day \in 0..(MaxTick \div TicksPerDay) :
        Cardinality(OpenOn(user_id, day)) <= 1

\* C25, as stated: of two autoRenewMemberships runs that follow one another
\* with nothing in between, the second does not renew again what the first
\* renewed: over the two runs a membership's end_date has moved by at most
\* one offset(type).
C25_RenewedOncePerExpiry ==
    (lastM.op = "autoRenew" /\ lastM.streak = 2) =>
        \A i \in 1..Len(memberships) :
            memberships[i].end_date
                <= lastM.streakStart[i].end_date + offset(memberships[i].type)

(***************************************************************************)
(* Requests in flight: every await of a handler is a step of its own, and  *)
(* the steps of two requests interleave.                                   *)
(***************************************************************************)
\* requests that may be in flight or answered in one behaviour
MaxFlights == 2

\* a check-in that has found its user and is about to query the day's rows
CheckInFlight(user_id, pc, status) ==
    [op |-> "checkIn", pc |-> pc, user_id |-> user_id, existing |-> None,
     status |-> status, id |-> 0, passedCheck |-> FALSE, accepted |-> FALSE,
     inserted |-> FALSE, openAtInsert |-> FALSE]

\* an insert step that reads the day's rows again before it inserts
existingAttendanceReread(seen, user_id) == ExistingAttendance(user_id, TRUE)

\* the existingAttendance the insert relies on: the answer of the query made
\* at the check, whatever the table holds by the time of the insert
existingAttendanceAtInsert(seen, user_id) == seen

\* AttendanceService.create up to its first await: the user lookup
CheckInBegin ==
    \E user_id \in AttendanceUserIds :
        /\ Len(flights) < MaxFlights
        /\ flights' = Append(flights,
                             IF \A u \in users : u.id # user_id
                             THEN CheckInFlight(user_id, "done", 404)
                             ELSE CheckInFlight(user_id, "checkExisting", 0))
        /\ UNCHANGED <<attendanceVars, membershipVars, notificationVars,
                       templateVars, authVars, config, contentVars, dashboardVars,
                       bulkVars>>

\* AttendanceService.create: the same-day query and the decision taken on
\* its answer.  queryOk: the store answers the query
CheckInCheckExisting ==
    \E k \in 1..Len(flights), queryOk \in BOOLEAN :
        /\ flights[k].op = "checkIn"
        /\ flights[k].pc = "checkExisting"
        /\ LET f == flights[k]
               existing == ExistingAttendance(f.user_id, queryOk)
           IN  flights' =
                   IF existing # None /\ attendances[existing[1]].check_out_time = None
                   THEN [flights EXCEPT ![k] = [f EXCEPT !.pc = "done", !.status = 201,
                                                         !.existing = existing,
                                                         !.id = existing[1]]]
                   ELSE [flights EXCEPT ![k] = [f EXCEPT !.pc = "insert",
                                                         !.existing = existing,
                                                         !.passedCheck = TRUE]]
        /\ UNCHANGED <<attendanceVars, membershipVars, notificationVars,
                       templateVars, authVars, config, contentVars, dashboardVars,
                       bulkVars>>

\* AttendanceService.create: the membership lookup and the insert, with its
\* retry.  insertError, retryOk as in AttendanceCreate
CheckInInsert ==
    \E k \in 1..Len(flights), insertError \in {"none"} \cup InsertErrorKinds,
       retryOk \in BOOLEAN :
        /\ flights[k].op = "checkIn"
        /\ flights[k].pc = "insert"
        /\ Len(attendances) < MaxAttendances
        /\ LET f == flights[k]
               existing == existingAttendanceAtInsert(f.existing, f.user_id)
               row == [user_id |-> f.user_id,
                       membership_id |-> ResolveMembership(f.user_id),
                       check_in_time |-> now, check_out_time |-> None]
               bare == [row EXCEPT !.membership_id = None]
               newId == Len(attendances) + 1
               openNow == \E i \in TodaysAttendances(f.user_id) :
                              attendances[i].check_out_time = None
               done(status, id, accepted, inserted) ==
                   [flights EXCEPT ![k] = [f EXCEPT !.pc = "done", !.status = status,
                                                    !.id = id,
                                                    !.accepted = accepted,
                                                    !.inserted = inserted,
                                                    !.openAtInsert = openNow]]
           IN  /\ insertError \in FirstInsertAnswers(row)
               /\ insertError \in {"not-null membership_id", "fk user_id"} => ~retryOk
               /\ IF existing # None /\ attendances[existing[1]].check_out_time = None
                  THEN /\ attendances' = attendances
                       /\ flights' = done(201, existing[1], insertError = "none", FALSE)
                  ELSE IF insertError = "none"
                  THEN /\ attendances' = Append(attendances, row)
                       /\ flights' = done(201, newId, TRUE, TRUE)
                  ELSE IF RetriesWithoutMembership(ErrorMessage(insertError)) /\ retryOk
                  THEN /\ attendances' = Append(attendances, bare)
                       /\ flights' = done(201, newId, TRUE, TRUE)
                  ELSE /\ attendances' = attendances
                       /\ flights' = done(500, 0, FALSE, FALSE)
        /\ UNCHANGED <<now, lastA, membershipVars, notificationVars, templateVars,
                       authVars, config, contentVars, dashboardVars, bulkVars>>

NextConcurrentCheckIn ==
    CheckInBegin \/ CheckInCheckExisting \/ CheckInInsert \/ Tick

SpecConcurrentCheckIn == InitConfigured /\ [][NextConcurrentCheckIn]_vars

\* a check-out that is about to read its attendance
CheckOutFlight(id, pc, status, raised) ==
    [op |-> "checkOut", pc |-> pc, id |-> id, status |-> status,
     raised |-> raised, wrote |-> FALSE, overwrote |-> None]

\* AttendanceService.checkOut up to its update: findOne and the test of
\* check_out_time on the row it answered
CheckOutRead ==
    \E id \in 1..MaxAttendances :
        /\ Len(flights) < MaxFlights
        /\ flights' = Append(flights,
                IF id > Len(attendances)
                THEN CheckOutFlight(id, "done", 500, 404)
                ELSE IF AlreadyCheckedOut(attendances[id])
                THEN CheckOutFlight(id, "done", CheckOutRejectionStatus, 400)
                ELSE CheckOutFlight(id, "update", 0, 0))
        /\ UNCHANGED <<attendanceVars, membershipVars, notificationVars,
                       templateVars, authVars, config, contentVars, dashboardVars,
                       bulkVars>>

\* AttendanceService.checkOut: .update({ check_out_time }).eq('id', id), with
\* no condition on the row's check_out_time.  updateOk: the store takes it
CheckOutWrite ==
    \E k \in 1..Len(flights), updateOk \in BOOLEAN :
        /\ flights[k].op = "checkOut"
        /\ flights[k].pc = "update"
        /\ LET f == flights[k]
           IN  IF updateOk
               THEN /\ attendances' =
                          [attendances EXCEPT ![f.id].check_out_time = Some(now)]
                    /\ flights' =
                          [flights EXCEPT ![k] =
                              [f EXCEPT !.pc = "done", !.status = 201, !.wrote = TRUE,
                                        !.overwrote = attendances[f.id].check_out_time]]
               ELSE /\ attendances' = attendances
                    /\ flights' = [flights EXCEPT ![k] =
                                      [f EXCEPT !.pc = "done", !.status = 500]]
        /\ UNCHANGED <<now, lastA, membershipVars, notificationVars, templateVars,
                       authVars, config, contentVars, dashboardVars, bulkVars>>

NextConcurrentCheckOut == ServedCheckIn \/ CheckOutRead \/ CheckOutWrite \/ Tick

SpecConcurrentCheckOut == InitConfigured /\ [][NextConcurrentCheckOut]_vars

\* a createTemplate call whose unset of the other defaults has been awaited
CreateTemplateFlight(name, type, isDefault, unsetOk) ==
    [op |-> "createTemplate", pc |-> "insert", name |-> name, type |-> type,
     isDefault |-> isDefault, unsetOk |-> unsetOk, id |-> 0, ok |-> FALSE]

\* NotificationsService.createTemplate up to its insert: when the template
\* is to be the default, the update that unsets the defaults of its type.
\* unsetOk: the store takes that update (its answer is not looked at)
CreateTemplateUnset ==
    \E name \in TemplateNames, type \in TemplateTypes, isDefault \in BOOLEAN,
       unsetOk \in BOOLEAN :
        /\ Len(flights) < MaxFlights
        /\ templates' = IF isDefault /\ unsetOk
                        THEN UnsetDefaults(templates, type, 0) ELSE templates
        /\ flights' = Append(flights,
                             CreateTemplateFlight(name, type, isDefault, unsetOk))
        /\ UNCHANGED <<nextTemplateId, lastT, membershipVars, attendanceVars,
                       notificationVars, authVars, config, contentVars,
                       dashboardVars, bulkVars>>

\* NotificationsService.createTemplate: the insert.  insertOk: the store
\* takes it; null is returned when it does not
CreateTemplateInsert ==
    \E k \in 1..Len(flights), insertOk \in BOOLEAN :
        /\ flights[k].op = "createTemplate"
        /\ flights[k].pc = "insert"
        /\ LET f == flights[k]
               row == [id |-> nextTemplateId, name |-> f.name, type |-> f.type,
                       is_default |-> f.isDefault,
                       whatsapp_template_name |-> "promo"]
           IN  /\ templates' = IF insertOk THEN templates \cup {row} ELSE templates
               /\ nextTemplateId' = IF insertOk THEN nextTemplateId + 1
                                    ELSE nextTemplateId
               /\ flights' = [flights EXCEPT ![k] =
                                 [f EXCEPT !.pc = "done", !.ok = insertOk,
                                           !.id = IF insertOk THEN row.id ELSE 0]]
        /\ UNCHANGED <<lastT, membershipVars, attendanceVars, notificationVars,
                       authVars, config, contentVars, dashboardVars, bulkVars>>

NextConcurrentTemplates == CreateTemplateUnset \/ CreateTemplateInsert

SpecConcurrentTemplates == InitConfigured /\ [][NextConcurrentTemplates]_vars

(***************************************************************************)
(* The administrator flag; concurrent requests; deletion of a user.        *)
(***************************************************************************)
\* the request was made without the token of an administrator
NoAdministratorToken ==
    /\ lastReq.route # "none"
    /\ \/ lastReq.principal = None
       \/ /\ ~lastReq.principal[1].is_admin
          /\ lastReq.principal[1].role # "admin"

\* C26, as stated: a request made without an administrator token neither
\* creates a user with is_admin = true nor sets is_admin = true on a stored
\* user: every administrator after the request was one before it.
C26_NoAdminWithoutAdminToken ==
    NoAdministratorToken =>
        \A u \in users :
            u.is_admin => \E b \in lastReq.before : b.id = u.id /\ b.is_admin

\* C27: the same-day check is not atomic with the insert.  A check-in that
\* passed the check (it saw no open row of its user for the day) and whose
\* insert the store takes inserts its row, whatever other requests have
\* inserted since the check; so two check-ins of one user can both insert.
C27_CheckNotAtomicWithInsert ==
    \A k \in 1..Len(flights) :
        (/\ flights[k].op = "checkIn"
         /\ flights[k].pc = "done"
         /\ flights[k].passedCheck
         /\ flights[k].accepted) =>
            /\ flights[k].inserted
            /\ flights[k].id \in 1..Len(attendances)
            /\ attendances[flights[k].id].user_id = flights[k].user_id

\* two check-ins of one user, who had no attendance, both passed the check
\* and both inserted: the user has two open rows on the same day
C27_Witness ==
    \E k1, k2 \in 1..Len(flights) :
        /\ k1 # k2
        /\ flights[k1].op = "checkIn" /\ flights[k2].op = "checkIn"
        /\ flights[k1].user_id = flights[k2].user_id
        /\ flights[k1].pc = "done" /\ flights[k2].pc = "done"
        /\ flights[k1].inserted /\ flights[k2].inserted
        /\ flights[k1].existing = None /\ flights[k2].existing = None
        /\ flights[k2].openAtInsert
        /\ \E day \in 0..(MaxTick \div TicksPerDay) :
              {flights[k1].id, flights[k2].id}
                  \subseteq OpenOn(flights[k1].user_id, day)
        /\ Len(attendances) = 2

\* C28, as stated: of the check-out requests on one attendance, concurrent
\* or not, at most one succeeds and at most one writes check_out_time; a
\* request that has been answered while another had already written was
\* rejected as already checked out.
C28_ConcurrentCheckOutWritesOnce ==
    \A k1, k2 \in 1..Len(flights) :
        (/\ k1 # k2
         /\ flights[k1].op = "checkOut" /\ flights[k2].op = "checkOut"
         /\ flights[k1].id = flights[k2].id
         /\ flights[k1].pc = "done" /\ flights[k2].pc = "done") =>
            /\ ~(flights[k1].status = 201 /\ flights[k2].status = 201)
            /\ ~(flights[k1].wrote /\ flights[k2].wrote)

\* C29, as stated: once two createTemplate calls that both asked for
\* is_default = true for one notification type have completed, each with its
\* unset and its insert taken by the store, at most one template of that
\* type has is_default = true.
C29_ConcurrentDefaultsLeaveOne ==
    \A k1, k2 \in 1..Len(flights) :
        (/\ k1 # k2
         /\ flights[k1].op = "createTemplate" /\ flights[k2].op = "createTemplate"
         /\ flights[k1].isDefault /\ flights[k2].isDefault
         /\ flights[k1].type = flights[k2].type
         /\ flights[k1].unsetOk /\ flights[k2].unsetOk
         /\ flights[k1].pc = "done" /\ flights[k2].pc = "done"
         /\ flights[k1].ok /\ flights[k2].ok) =>
            Cardinality({t \in templates :
                            t.type = flights[k1].type /\ t.is_default}) <= 1

\* C30, as stated: a DELETE users/:id that passed the guard, that the store
\* took, and whose id matches no stored user is answered 404.
C30_DeleteOfMissingUserIs404 ==
    (/\ lastReq.route = "DELETE users/:id"
     /\ lastReq.served
     /\ lastReq.status # 500
     /\ \A b \in lastReq.before : b.id # lastReq.body[1].id) =>
        lastReq.status = 404

====
